---- MODULE Spec2Model ----
(***************************************************************************)
(* Model of the test template engine (singer_sdk/testing/templates.py)     *)
(* and of the stream registry / sync orchestrator (tap_base/tap_base.py).  *)
(*                                                                         *)
(* Spec     : one test template instance, run up to MaxRuns times.         *)
(* TapSpec  : one TapBase construction followed by sync / discovery calls. *)
(***************************************************************************)
EXTENDS Integers, Sequences, FiniteSets, TLC

(* ------------------------------ bounds -------------------------------- *)

\* how many times run() is called on the one template instance
MaxRuns == 2
\* longest catalog / discovery result
MaxEntries == 3
\* how many sync_one / sync_all / run_discovery calls follow a construction
MaxOps == 2
\* longest sequence of captured records of a stream
MaxRecords == 2
\* largest attribute value of a captured record
MaxVal == 2

(* ------------------------- template engine: data ---------------------- *)

\* TapTestTemplate, StreamTestTemplate, AttributeTestTemplate,
\* TargetTestTemplate, TargetFileTestTemplate
Variants == {"tap", "stream", "attribute", "target", "target_file"}

\* the class attribute plugin_type of each template class
PluginTypeOf(v) ==
    CASE v = "tap" -> "tap"
      [] v = "stream" -> "stream"
      [] v = "attribute" -> "attribute"
      [] v = "target" -> "target"
      [] v = "target_file" -> "target"

\* name / plugin_type of a definition; "" stands for None or the empty string
\* (both are falsy in the precondition test of run)
TestNames == {"", "t1", "t2"}

Runners == {"r1", "r2"}
StreamNames == {"users", "orders"}
Attrs == {"a", "b"}
Resources == {"res"}

\* the JSON null of a record value (Python None)
Null == 0

\* SuiteConfig: the two options the templates read
Configs == [bound : {TRUE},
            ignore_no_records : BOOLEAN,
            ignore_no_records_for_streams : SUBSET StreamNames]
NoConfig == [bound |-> FALSE, ignore_no_records |-> FALSE,
             ignore_no_records_for_streams |-> {}]

\* runner.records: stream name -> captured records, per runner fixture
records(r, s) ==
    CASE r = "r1" /\ s = "users" ->
           << ("a" :> 1) @@ ("b" :> Null), ("a" :> Null), ("a" :> 2) @@ ("b" :> 1) >>
      [] r = "r1" /\ s = "orders" -> << >>
      [] r = "r2" /\ s = "users" -> << ("b" :> 2) >>
      [] r = "r2" /\ s = "orders" -> << ("a" :> Null) @@ ("b" :> Null) >>
      [] OTHER -> << >>

\* dict.get(key): the value, or None when the key is absent
Get(rec, key) == IF key \in DOMAIN rec THEN rec[key] ELSE Null

\* the outcome of a hook: it returns, raises NotImplementedError, or raises
\* another error
Outcomes == {"ok", "notimpl", "error"}
Phases == {"setup", "test", "validate", "teardown"}

NoError == [kind |-> "none", phase |-> "none"]
\* the exception a hook raises for an outcome
Raised(phase, o) ==
    [kind |-> IF o = "notimpl" THEN "NotImplementedError" ELSE "Error",
     phase |-> phase]

\* how the latest run() call ended
Running == [status |-> "none", error |-> NoError]
Returned == [status |-> "returned", error |-> NoError]
Raise(e) == [status |-> "raised", error |-> e]

NoOutcomes == [p \in Phases |-> "none"]
NoPlugin == [runner |-> "none", n |-> 0, input |-> "none"]
NoCache == [set |-> FALSE, val |-> << >>]
NoPath == "none"
NoId == [set |-> FALSE, val |-> ""]

\* TargetFileTestTemplate.singer_filepath: <package dir>/<name>.singer
\* (an empty name formats as None)
singer_filepath(n) ==
    "target_test_streams/" \o (IF n = "" THEN "None" ELSE n) \o ".singer"

VARIABLES
    \* --- the template instance
    variant,        \* its class
    name,           \* class attribute name
    plugin_type,    \* class attribute plugin_type
    config,         \* self.config
    resource,       \* self.resource
    runner,         \* self.runner
    plugin,         \* self.tap / self.target
    stream,         \* self.stream (its name)
    stream_records, \* self.stream_records
    attribute_name, \* self.attribute_name
    cache,          \* the cached_property entry non_null_attribute_values
    \* --- the runners
    created,        \* runner -> number of new_tap()/new_target() calls
    input_filepath, \* runner -> runner.input_filepath
    \* --- the run in progress
    pc,             \* "idle", or the phase run() is about to invoke
    pending,        \* the exception in flight inside the try block
    \* --- observations
    runs,           \* number of run() calls so far
    calls,          \* the calls made by the latest run(), in order
    outcome,        \* phase -> outcome of the hook in the latest run()
    result,         \* how the latest run() ended
    last_read,      \* value of the latest read of non_null_attribute_values
                    \* since the latest run() call
    warnings,       \* number of warnings emitted
    test_id,        \* value of the latest read of the id property
    \* --- the tap (TapSpec)
    tap             \* see TapSpec below

tvars == << variant, name, plugin_type, config, resource, runner, plugin, stream,
            stream_records, attribute_name, cache, created, input_filepath, pc,
            pending, runs, calls, outcome, result, last_read, warnings,
            test_id >>
vars == << tvars, tap >>

NoTap == [phase |-> "unused"]

\* a template instance right after construction: only class attributes are set
Init ==
    /\ variant \in Variants
    /\ name \in TestNames
    /\ plugin_type \in {PluginTypeOf(variant), ""}
    /\ config = NoConfig
    /\ resource = "none"
    /\ runner = "none"
    /\ plugin = NoPlugin
    /\ stream = "none"
    /\ stream_records = << >>
    /\ attribute_name = "none"
    /\ cache = NoCache
    /\ created = [r \in Runners |-> 0]
    /\ input_filepath = [r \in Runners |-> NoPath]
    /\ pc = "idle"
    /\ pending = NoError
    /\ runs = 0
    /\ calls = << >>
    /\ outcome = NoOutcomes
    /\ result = Running
    /\ last_read = NoCache
    /\ warnings = 0
    /\ test_id = NoId
    /\ tap = NoTap

(* ------------------------ template engine: run() ---------------------- *)

\* what every run() call resets in the observations
NewRun ==
    /\ pc = "idle"
    /\ runs < MaxRuns
    /\ runs' = runs + 1
    /\ outcome' = NoOutcomes
    /\ pending' = NoError
    /\ last_read' = NoCache
    /\ UNCHANGED << variant, name, plugin_type, cache, warnings, test_id, tap >>

\* TestTemplate.run up to the first hook: the precondition, then the binding
\* of config, resource and runner
TestTemplate_run(c, res, r) ==
    IF name = "" \/ plugin_type = ""
    THEN /\ result' = Raise([kind |-> "ValueError", phase |-> "precondition"])
         /\ pc' = "idle"
         /\ UNCHANGED << config, resource, runner >>
    ELSE /\ config' = c
         /\ resource' = res
         /\ runner' = r
         /\ result' = Running
         /\ pc' = "setup"

\* self.tap = runner.new_tap() / self.target = runner.new_target(); input is
\* the input source the runner has when it is asked for the plugin
Acquire(r, call, input) ==
    /\ created' = [created EXCEPT ![r] = @ + 1]
    /\ plugin' = [runner |-> r, n |-> created[r] + 1, input |-> input]
    /\ calls' = << call >>

NoAcquire ==
    /\ calls' = << >>
    /\ UNCHANGED << created, plugin >>

TapTestTemplate_run(c, res, r) ==
    /\ variant = "tap"
    /\ NewRun
    /\ Acquire(r, "new_tap", input_filepath[r])
    /\ TestTemplate_run(c, res, r)
    /\ UNCHANGED << stream, stream_records, attribute_name, input_filepath >>

\* self.stream = stream; self.stream_records = runner.records[stream.name]
BindStream(r, s) ==
    /\ stream' = s
    /\ stream_records' = records(r, s)

StreamTestTemplate_run(c, res, r, s) ==
    /\ variant = "stream"
    /\ NewRun
    /\ BindStream(r, s)
    /\ NoAcquire
    /\ TestTemplate_run(c, res, r)
    /\ UNCHANGED << attribute_name, input_filepath >>

AttributeTestTemplate_run(c, res, r, s, a) ==
    /\ variant = "attribute"
    /\ NewRun
    /\ attribute_name' = a
    /\ BindStream(r, s)
    /\ NoAcquire
    /\ TestTemplate_run(c, res, r)
    /\ UNCHANGED input_filepath

TargetTestTemplate_run(c, res, r) ==
    /\ variant = "target"
    /\ NewRun
    /\ Acquire(r, "new_target", input_filepath[r])
    /\ TestTemplate_run(c, res, r)
    /\ UNCHANGED << stream, stream_records, attribute_name, input_filepath >>

\* is_file is the answer of the file system for singer_filepath at this call
\* variant of TargetFileTestTemplate_run: the target is acquired before the
\* fixture becomes the input source of the runner
TargetFileTestTemplate_run_AcquireFirst(c, res, r, is_file) ==
    /\ variant = "target_file"
    /\ NewRun
    /\ UNCHANGED << stream, stream_records, attribute_name >>
    /\ IF is_file
       THEN /\ Acquire(r, "new_target", input_filepath[r])
            /\ input_filepath' = [input_filepath EXCEPT ![r] = singer_filepath(name)]
            /\ TestTemplate_run(c, res, r)
       ELSE /\ result' = Raise([kind |-> "AssertionError", phase |-> "fixture"])
            /\ pc' = "idle"
            /\ calls' = << >>
            /\ UNCHANGED << input_filepath, created, plugin, config, resource, runner >>

TargetFileTestTemplate_run(c, res, r, is_file) ==
    /\ variant = "target_file"
    /\ NewRun
    /\ UNCHANGED << stream, stream_records, attribute_name >>
    /\ IF is_file
       THEN /\ input_filepath' = [input_filepath EXCEPT ![r] = singer_filepath(name)]
            /\ Acquire(r, "new_target", singer_filepath(name))
            /\ TestTemplate_run(c, res, r)
       ELSE /\ result' = Raise([kind |-> "AssertionError", phase |-> "fixture"])
            /\ pc' = "idle"
            /\ calls' = << >>
            /\ UNCHANGED << input_filepath, created, plugin, config, resource, runner >>

\* what a hook step leaves alone
HookFrame ==
    UNCHANGED << variant, name, plugin_type, config, resource, runner, plugin,
                 stream, stream_records, attribute_name, cache, created,
                 input_filepath, runs, last_read, warnings, test_id, tap >>

\* variant of setup: the call sits inside the try block, so that its error
\* waits for teardown
setup_InsideTry(o) ==
    /\ pc = "setup"
    /\ calls' = Append(calls, "setup")
    /\ outcome' = [outcome EXCEPT !["setup"] = o]
    /\ IF o = "error"
       THEN /\ pending' = Raised("setup", o)
            /\ pc' = "teardown"
       ELSE /\ pc' = "test"
            /\ UNCHANGED pending
    /\ UNCHANGED result
    /\ HookFrame

\* variant of setup: NotImplementedError is not suppressed
setup_NoSuppress(o) ==
    /\ pc = "setup"
    /\ calls' = Append(calls, "setup")
    /\ outcome' = [outcome EXCEPT !["setup"] = o]
    /\ IF o # "ok"
       THEN /\ result' = Raise(Raised("setup", o))
            /\ pc' = "idle"
       ELSE /\ pc' = "test"
            /\ UNCHANGED result
    /\ UNCHANGED pending
    /\ HookFrame

\* with contextlib.suppress(NotImplementedError): self.setup()
setup(o) ==
    /\ pc = "setup"
    /\ calls' = Append(calls, "setup")
    /\ outcome' = [outcome EXCEPT !["setup"] = o]
    /\ IF o = "error"
       THEN /\ result' = Raise(Raised("setup", o))
            /\ pc' = "idle"
       ELSE /\ pc' = "test"
            /\ UNCHANGED result
    /\ UNCHANGED pending
    /\ HookFrame

\* variant of test: no finally block, an error of test leaves run() at once
test_NoFinally(o) ==
    /\ pc = "test"
    /\ calls' = Append(calls, "test")
    /\ outcome' = [outcome EXCEPT !["test"] = o]
    /\ IF o = "ok"
       THEN /\ pc' = "validate"
            /\ UNCHANGED result
       ELSE /\ pc' = "idle"
            /\ result' = Raise(Raised("test", o))
    /\ UNCHANGED pending
    /\ HookFrame

\* variant of test: NotImplementedError of test is suppressed like that of the
\* optional hooks
test_Suppressed(o) ==
    /\ pc = "test"
    /\ calls' = Append(calls, "test")
    /\ outcome' = [outcome EXCEPT !["test"] = o]
    /\ IF o = "error"
       THEN /\ pc' = "teardown"
            /\ pending' = Raised("test", o)
       ELSE /\ pc' = "validate"
            /\ UNCHANGED pending
    /\ UNCHANGED result
    /\ HookFrame

\* variant of test: validate is called whether or not test raised
test_ValidateAlways(o) ==
    /\ pc = "test"
    /\ calls' = Append(calls, "test")
    /\ outcome' = [outcome EXCEPT !["test"] = o]
    /\ pc' = "validate"
    /\ pending' = IF o = "ok" THEN pending ELSE Raised("test", o)
    /\ UNCHANGED result
    /\ HookFrame

\* try: self.test()
test(o) ==
    /\ pc = "test"
    /\ calls' = Append(calls, "test")
    /\ outcome' = [outcome EXCEPT !["test"] = o]
    /\ IF o = "ok"
       THEN /\ pc' = "validate"
            /\ UNCHANGED pending
       ELSE /\ pc' = "teardown"
            /\ pending' = Raised("test", o)
    /\ UNCHANGED result
    /\ HookFrame

\* with contextlib.suppress(NotImplementedError): self.validate()
validate(o) ==
    /\ pc = "validate"
    /\ calls' = Append(calls, "validate")
    /\ outcome' = [outcome EXCEPT !["validate"] = o]
    /\ pc' = "teardown"
    /\ pending' = IF o = "error" THEN Raised("validate", o) ELSE pending
    /\ UNCHANGED result
    /\ HookFrame

\* variant of teardown: NotImplementedError of teardown is not suppressed
teardown_NoSuppress(o) ==
    /\ pc = "teardown"
    /\ calls' = Append(calls, "teardown")
    /\ outcome' = [outcome EXCEPT !["teardown"] = o]
    /\ pc' = "idle"
    /\ pending' = NoError
    /\ result' = IF o # "ok" THEN Raise(Raised("teardown", o))
                 ELSE IF pending # NoError THEN Raise(pending)
                 ELSE Returned
    /\ HookFrame

\* finally: with contextlib.suppress(NotImplementedError): self.teardown()
\* and the end of run(): an error of teardown replaces the one in flight
teardown(o) ==
    /\ pc = "teardown"
    /\ calls' = Append(calls, "teardown")
    /\ outcome' = [outcome EXCEPT !["teardown"] = o]
    /\ pc' = "idle"
    /\ pending' = NoError
    /\ result' = IF o = "error" THEN Raise(Raised("teardown", o))
                 ELSE IF pending # NoError THEN Raise(pending)
                 ELSE Returned
    /\ HookFrame

(* ------------------- attribute variant: cached values ----------------- *)

\* StreamTestTemplate.ignore_no_records
ignore_no_records ==
    config.ignore_no_records \/ stream \in config.ignore_no_records_for_streams

\* variant of NonNullValues: the filter tests the presence of the key only
NonNullValues_KeyPresent(recs, attr) ==
    LET kept == SelectSeq(recs, LAMBDA r : attr \in DOMAIN r)
    IN  [i \in 1 .. Len(kept) |-> kept[i][attr]]

\* [r[attr] for r in recs if r.get(attr) is not None]
NonNullValues(recs, attr) ==
    LET kept == SelectSeq(recs, LAMBDA r : Get(r, attr) # Null)
    IN  [i \in 1 .. Len(kept) |-> kept[i][attr]]

\* a read of the cached_property: the body runs only when the instance holds
\* no cached entry; nothing removes an entry.  Reads are taken once a run has
\* bound the instance.
non_null_attribute_values ==
    /\ variant = "attribute"
    /\ config.bound
    /\ IF cache.set
       THEN /\ last_read' = cache
            /\ UNCHANGED << cache, warnings >>
       ELSE LET values == NonNullValues(stream_records, attribute_name)
            IN  /\ cache' = [set |-> TRUE, val |-> values]
                /\ last_read' = [set |-> TRUE, val |-> values]
                /\ warnings' = IF values = << >> /\ ~ ignore_no_records
                               THEN warnings + 1 ELSE warnings
    /\ UNCHANGED << variant, name, plugin_type, config, resource, runner, plugin,
                    stream, stream_records, attribute_name, created,
                    input_filepath, pc, pending, runs, calls, outcome, result,
                    test_id, tap >>

(* ------------------------------ test ids ------------------------------ *)

\* variant of IdOf: the attribute variant keeps the id of the stream variant
IdOf_AttributeDropped(v, n, s, a) ==
    CASE v = "tap" -> "tap__" \o n
      [] v \in {"stream", "attribute"} -> s \o "__" \o n
      [] v \in {"target", "target_file"} -> "target__" \o n

\* the id property of the four template classes (TargetFileTestTemplate
\* inherits that of TargetTestTemplate)
IdOf(v, n, s, a) ==
    CASE v = "tap" -> "tap__" \o n
      [] v = "stream" -> s \o "__" \o n
      [] v = "attribute" -> s \o "__" \o a \o "__" \o n
      [] v \in {"target", "target_file"} -> "target__" \o n

\* a read of the id property; the stream and attribute variants have their
\* bindings once run has been called
id ==
    /\ runs > 0
    /\ test_id' = [set |-> TRUE,
                   val |-> IdOf(variant, name, stream, attribute_name)]
    /\ UNCHANGED << variant, name, plugin_type, config, resource, runner, plugin,
                    stream, stream_records, attribute_name, cache, created,
                    input_filepath, pc, pending, runs, calls, outcome, result,
                    last_read, warnings, tap >>

Next ==
    \/ \E c \in Configs, res \in Resources, r \in Runners :
          TapTestTemplate_run(c, res, r)

    \/ \E c \in Configs, res \in Resources, r \in Runners, s \in StreamNames :
          StreamTestTemplate_run(c, res, r, s)
    \/ \E c \in Configs, res \in Resources, r \in Runners, s \in StreamNames,
          a \in Attrs :
          AttributeTestTemplate_run(c, res, r, s, a)
    \/ \E c \in Configs, res \in Resources, r \in Runners :
          TargetTestTemplate_run(c, res, r)
    \/ \E c \in Configs, res \in Resources, r \in Runners, f \in BOOLEAN :
          TargetFileTestTemplate_run(c, res, r, f)
    \/ \E o \in Outcomes : setup(o)
    \/ \E o \in Outcomes : test(o)
    \/ \E o \in Outcomes : validate(o)
    \/ \E o \in Outcomes : teardown(o)
    \/ non_null_attribute_values

Spec == Init /\ [][Next]_vars

(* ---------------------- template engine: properties ------------------- *)

\* number of occurrences of x in the sequence s
Count(s, x) == Cardinality({i \in 1 .. Len(s) : s[i] = x})
Called(x) == \E i \in 1 .. Len(calls) : calls[i] = x
\* the latest run() call has ended
Ended == pc = "idle" /\ runs > 0

\* C1: a run that passes its preconditions and whose setup returns or signals
\* not-implemented calls teardown exactly once, whatever test and validate do
\* (and no run calls it twice).
C1_TeardownExactlyOnce ==
    /\ Count(calls, "teardown") <= 1
    /\ (Ended /\ outcome["setup"] \in {"ok", "notimpl"})
          => Count(calls, "teardown") = 1

C1_Witness ==
    /\ Ended
    /\ outcome["setup"] = "ok"
    /\ outcome["test"] = "error"
    /\ Count(calls, "teardown") = 1

C3_ExecuteErrorPropagates ==
    (outcome["test"] \in {"notimpl", "error"})
       => /\ ~ Called("validate")
          /\ ~ Ended => (pc = "teardown" /\ result = Running)
          /\ Ended
               => /\ Count(calls, "teardown") = 1
                  /\ result.status = "raised"
                  /\ outcome["teardown"] # "error"
                       => result = Raise(Raised("test", outcome["test"]))

C3_Witness ==
    /\ Ended
    /\ outcome["test"] = "notimpl"
    /\ outcome["teardown"] = "ok"
    /\ result = Raise(Raised("test", "notimpl"))

\* position of a call in the protocol
Rank(x) ==
    CASE x \in {"new_tap", "new_target"} -> 0
      [] x = "setup" -> 1
      [] x = "test" -> 2
      [] x = "validate" -> 3
      [] x = "teardown" -> 4

\* C4: the calls of one run occur in the order acquire, setup, test, validate,
\* teardown, each at most once; test only after setup returned or signalled
\* not-implemented; validate only after test returned; teardown only after
\* test; the tap and target variants acquire a fresh instance from the runner
\* before setup.
C4_PhaseOrder ==
    /\ \A i, j \in 1 .. Len(calls) : i < j => Rank(calls[i]) < Rank(calls[j])
    /\ Called("test") => Called("setup") /\ outcome["setup"] \in {"ok", "notimpl"}
    /\ Called("validate") => Called("test") /\ outcome["test"] = "ok"
    /\ Called("teardown") => Called("test")
    /\ (pc = "validate") => (Called("test") /\ ~ Called("validate"))
    /\ (Called("setup") /\ variant \in {"tap", "target", "target_file"})
          => /\ calls[1] = (IF variant = "tap" THEN "new_tap" ELSE "new_target")
             /\ plugin.runner = runner
             /\ plugin.n = created[runner]

C4_Witness ==
    /\ variant = "tap"
    /\ runs = 2
    /\ calls = << "new_tap", "setup", "test", "validate", "teardown" >>
    /\ plugin.n = 2

Optional == {"setup", "validate", "teardown"}

\* C5: an optional hook that signals not-implemented does not end the run and
\* does not keep the following phase from being called; a run whose test
\* returns and none of whose optional hooks raises another error calls all four
\* phases and returns normally.
C5_OptionalAbsenceTolerated ==
    /\ outcome["setup"] = "notimpl" => (pc = "test" \/ Called("test"))
    /\ outcome["validate"] = "notimpl" => (pc = "teardown" \/ Called("teardown"))
    /\ (Ended /\ outcome["test"] = "ok"
          /\ \A p \in Optional : outcome[p] \in {"ok", "notimpl"})
          => /\ result = Returned
             /\ \A p \in Phases : Count(calls, p) = 1

C5_Witness ==
    /\ Ended
    /\ outcome["test"] = "ok"
    /\ \A p \in Optional : outcome[p] = "notimpl"
    /\ result = Returned

\* the error of the try block: that of test, else that of validate
BodyError ==
    IF outcome["test"] # "ok" THEN Raised("test", outcome["test"])
    ELSE Raised("validate", "error")

\* C6: when test raises, or validate raises an error other than
\* NotImplementedError, run raises that error unless teardown raises an error
\* other than NotImplementedError, and then it raises the error of teardown.
C6_OnlyTeardownMasks ==
    (Ended /\ (outcome["test"] \in {"notimpl", "error"}
                \/ outcome["validate"] = "error"))
       => result = IF outcome["teardown"] = "error"
                   THEN Raise(Raised("teardown", "error"))
                   ELSE Raise(BodyError)

C6_Witness ==
    /\ Ended
    /\ outcome["validate"] = "error"
    /\ outcome["teardown"] = "notimpl"
    /\ result = Raise(Raised("validate", "error"))

C6_WitnessMasked ==
    /\ Ended
    /\ outcome["test"] = "error"
    /\ outcome["teardown"] = "error"
    /\ result = Raise(Raised("teardown", "error"))

\* C7: a run on a definition whose name or plugin_type is empty ends with the
\* configuration error (ValueError), calls none of the four phases and binds
\* neither config nor resource nor runner.
C7_Original ==
    (Ended /\ (name = "" \/ plugin_type = ""))
       => /\ result = Raise([kind |-> "ValueError", phase |-> "precondition"])
          /\ \A p \in Phases : ~ Called(p)
          /\ config = NoConfig /\ resource = "none" /\ runner = "none"

\* C8: a value read from non_null_attribute_values after a run call is the one
\* computed from the records and the attribute bound by that call.
C8_Original ==
    last_read.set
       => last_read.val = NonNullValues(stream_records, attribute_name)

(* --------------------- stream registry: data and inputs --------------- *)

SeqsUpTo(S, n) == UNION {[1 .. k -> S] : k \in 0 .. n}

\* a catalog entry carries the stream identifier
Entries == [tap_stream_id : StreamNames]

\* the catalog argument of TapBase.__init__: None, a dict, or the path of a
\* file; has_streams tells whether the (loaded) dict has the key "streams".
\* A dict without it is the empty dict.
CatalogInputs ==
    {[kind |-> "none", has_streams |-> FALSE, streams |-> << >>]}
    \cup {[kind |-> k, has_streams |-> FALSE, streams |-> << >>] :
             k \in {"dict", "file"}}
    \cup {[kind |-> k, has_streams |-> TRUE, streams |-> es] :
             k \in {"dict", "file"}, es \in SeqsUpTo(Entries, MaxEntries)}

\* the discovery hook of the concrete tap: not overridden (the base raises
\* NotImplementedError), or returning a list of streams with these names
DiscoveryHooks ==
    {[implemented |-> FALSE, names |-> << >>]}
    \cup {[implemented |-> TRUE, names |-> ns] :
             ns \in SeqsUpTo(StreamNames, MaxEntries)}

\* `if catalog:` -- None and the empty dict are falsy, a path is not
Truthy(catalog) ==
    catalog.kind = "file" \/ (catalog.kind = "dict" /\ catalog.has_streams)

\* a stream instance: its name, and the position of the catalog entry or
\* discovery element it was built from
Stream(n, i) == [name |-> n, origin |-> i]

\* TapStreamBase.from_stream_dict: the stream rehydrated from a catalog entry
from_stream_dict(stream_entry, i) == Stream(stream_entry.tap_stream_id, i)

\* TapBase.load_catalog_streams, for a catalog dict that has the key "streams"
\* and a tap that has a default_stream_class
load_catalog_streams(catalog) ==
    [i \in 1 .. Len(catalog.streams) |-> from_stream_dict(catalog.streams[i], i)]

\* the list a discovery hook returns
discover_streams(hook) ==
    [i \in 1 .. Len(hook.names) |-> Stream(hook.names[i], i)]

\* the dict self._streams keeps insertion order; it is a sequence of
\* key/value pairs with pairwise distinct keys
Keys(d) == [i \in 1 .. Len(d) |-> d[i].key]
Values(d) == [i \in 1 .. Len(d) |-> d[i].value]
HasKey(d, k) == \E i \in 1 .. Len(d) : d[i].key = k
Lookup(d, k) == d[CHOOSE i \in 1 .. Len(d) : d[i].key = k].value

\* variant of DictSet: an existing key keeps its first value
DictSet_FirstWins(d, k, v) ==
    IF HasKey(d, k) THEN d ELSE Append(d, [key |-> k, value |-> v])

\* variant of DictSet: a new key goes to the front
DictSet_Prepend(d, k, v) ==
    IF HasKey(d, k)
    THEN [i \in 1 .. Len(d) |-> IF d[i].key = k THEN [key |-> k, value |-> v]
                                ELSE d[i]]
    ELSE << [key |-> k, value |-> v] >> \o d

\* variant of DictSet: an existing key is moved to the end with its new value
DictSet_MoveToEnd(d, k, v) ==
    Append(SelectSeq(d, LAMBDA p : p.key # k), [key |-> k, value |-> v])

\* d[k] = v: an existing key keeps its position and takes the new value, a
\* new key goes to the end
DictSet(d, k, v) ==
    IF HasKey(d, k)
    THEN [i \in 1 .. Len(d) |-> IF d[i].key = k THEN [key |-> k, value |-> v]
                                ELSE d[i]]
    ELSE Append(d, [key |-> k, value |-> v])

\* for stream in list_of_streams: self._streams[stream.name] = stream
RECURSIVE Register(_, _)
Register(d, list_of_streams) ==
    IF list_of_streams = << >> THEN d
    ELSE Register(DictSet(d, Head(list_of_streams).name, Head(list_of_streams)),
                  Tail(list_of_streams))

NoTapError == [kind |-> "none", names |-> << >>]
TapError(k) == [kind |-> k, names |-> << >>]

\* the state argument of TapBase.__init__: None, or a checkpoint
StateInputs == {"none", "s1"}

\* self._state = state_dict or {}
state_dict(st) == IF st = "none" THEN "empty" ELSE st

\* the plugin no reload has built yet
NoReload == [done |-> FALSE, phase |-> "new", error |-> NoTapError,
             streams |-> << >>, discover_calls |-> 0, load_calls |-> 0]
\* no command line run
NoCli == [ran |-> FALSE, version |-> FALSE, discover |-> FALSE,
          user_state |-> "none", exit |-> "none"]

\* before construction: the arguments and the class of the tap are chosen
TapInit ==
    /\ variant = "tap"
    /\ name = "t1"
    /\ plugin_type = "tap"
    /\ config = NoConfig
    /\ resource = "none"
    /\ runner = "none"
    /\ plugin = NoPlugin
    /\ stream = "none"
    /\ stream_records = << >>
    /\ attribute_name = "none"
    /\ cache = NoCache
    /\ created = [r \in Runners |-> 0]
    /\ input_filepath = [r \in Runners |-> NoPath]
    /\ pc = "idle"
    /\ pending = NoError
    /\ runs = 0
    /\ calls = << >>
    /\ outcome = NoOutcomes
    /\ result = Running
    /\ last_read = NoCache
    /\ warnings = 0
    /\ test_id = NoId
    /\ \E c \in CatalogInputs, h \in DiscoveryHooks, dsc \in BOOLEAN :
          tap = [phase |-> "new",
                 catalog |-> c,                 \* the catalog argument
                 discovery |-> h,               \* the discovery hook
                 default_stream_class |-> dsc,  \* whether the class sets one
                 state_arg |-> "unset",         \* the state argument received
                 state |-> "unset",             \* self._state
                 streams |-> << >>,             \* self._streams
                 list_of_streams |-> << >>,     \* the streams constructed
                 discover_calls |-> 0,          \* calls of the discovery hook
                 load_calls |-> 0,              \* calls of load_catalog_streams
                 loaded |-> 0,                  \* catalog entries rehydrated
                 error |-> NoTapError,          \* error of the latest call
                 sync_log |-> << >>,            \* streams synced, in order
                 idx |-> 0,                     \* position of sync_all
                 stdout |-> << >>,              \* what was printed
                 ops |-> 0,                     \* calls after construction
                 last_op |-> "none",            \* the latest of these calls
                 arg |-> "none",                \* its stream_name argument
                 mark |-> 0,                    \* Len(sync_log) when it began
                 cli |-> NoCli,                 \* the command line run
                 reloaded |-> NoReload]         \* the plugin built from the
                                                \* printed catalog

(* ------------------------ stream registry: actions -------------------- *)

\* what a failed construction leaves
Failed(k, load_n, disc_n) ==
    [phase |-> "failed", error |-> TapError(k), streams |-> << >>,
     list_of_streams |-> << >>, loaded |-> 0,
     load_calls |-> load_n, discover_calls |-> disc_n]

\* what a construction from this list of streams leaves
Built(list, load_n, disc_n) ==
    [phase |-> "ready", error |-> NoTapError,
     streams |-> Register(<< >>, list),
     list_of_streams |-> list,
     loaded |-> IF load_n = 1 THEN Len(list) ELSE 0,
     load_calls |-> load_n, discover_calls |-> disc_n]

\* variant of Construct: the discovery hook is consulted before the catalog
\* is looked at
Construct_DiscoverFirst(catalog, hook, dsc) ==
    IF ~ hook.implemented THEN Failed("NotImplementedError", 0, 1)
    ELSE IF Truthy(catalog)
    THEN IF ~ catalog.has_streams THEN Failed("KeyError", 1, 1)
         ELSE IF catalog.streams # << >> /\ ~ dsc THEN Failed("ValueError", 1, 1)
         ELSE Built(load_catalog_streams(catalog), 1, 1)
    ELSE Built(discover_streams(hook), 0, 1)

\* TapBase.__init__ from `if catalog:` on, for a tap class with this discovery
\* hook and this default_stream_class
Construct(catalog, hook, dsc) ==
    IF Truthy(catalog)
    THEN IF ~ catalog.has_streams
         THEN \* catalog["streams"] on the empty dict
              Failed("KeyError", 1, 0)
         ELSE IF catalog.streams # << >> /\ ~ dsc
         THEN \* get_stream_class raises for the first entry
              Failed("ValueError", 1, 0)
         ELSE Built(load_catalog_streams(catalog), 1, 0)
    ELSE IF ~ hook.implemented
         THEN Failed("NotImplementedError", 0, 1)
         ELSE Built(discover_streams(hook), 0, 1)

\* the tap after TapBase.__init__ with this state argument
Constructed(st) ==
    LET c == Construct(tap.catalog, tap.discovery, tap.default_stream_class)
    IN  [tap EXCEPT !.phase = c.phase, !.error = c.error, !.streams = c.streams,
                    !.list_of_streams = c.list_of_streams, !.loaded = c.loaded,
                    !.load_calls = c.load_calls,
                    !.discover_calls = c.discover_calls,
                    !.state_arg = st, !.state = state_dict(st)]

\* TapBase.__init__
TapBase_init(st) ==
    /\ tap.phase = "new"
    /\ UNCHANGED tvars
    /\ tap' = Constructed(st)

\* sorted(self.streams.keys()), over the two stream names
SortedKeys(d) ==
    (IF HasKey(d, "orders") THEN << "orders" >> ELSE << >>)
    \o (IF HasKey(d, "users") THEN << "users" >> ELSE << >>)

\* the tap t after the entry of sync_all
SyncAllEntered(t) ==
    [t EXCEPT !.ops = @ + 1, !.error = NoTapError,
              !.last_op = "sync_all", !.arg = "none", !.mark = Len(t.sync_log),
              !.phase = IF t.streams = << >> THEN "ready" ELSE "syncing",
              !.idx = IF t.streams = << >> THEN 0 ELSE 1]

\* variant of get_singer_catalog: the entries are listed by sorted name
get_singer_catalog_Sorted(d) ==
    [streams |-> [i \in 1 .. Len(d) |-> [tap_stream_id |-> SortedKeys(d)[i]]]]

\* Stream.singer_catalog_entry and Catalog(...).to_dict()
get_singer_catalog(d) ==
    [streams |-> [i \in 1 .. Len(d) |-> [tap_stream_id |-> d[i].value.name]]]

\* json.dumps of a list of catalog entries, as the tokens of the text
RECURSIVE DumpEntries(_)
DumpEntries(es) ==
    IF es = << >> THEN << >>
    ELSE << "{", "tap_stream_id", Head(es).tap_stream_id, "}" >>
         \o DumpEntries(Tail(es))

\* TapBase.get_catalog_json: json.dumps(self.get_singer_catalog().to_dict())
get_catalog_json(d) ==
    << "{", "streams", "[" >> \o DumpEntries(get_singer_catalog(d).streams)
       \o << "]", "}" >>

\* the tap t after run_discovery
Printed(t) ==
    [t EXCEPT !.ops = @ + 1, !.error = NoTapError,
              !.last_op = "run_discovery", !.arg = "none",
              !.mark = Len(t.sync_log),
              !.stdout = Append(@, get_catalog_json(t.streams))]

\* variant of sync_one: the message names the requested stream only
sync_one_NamesRequested(stream_name, ok) ==
    /\ tap.phase = "ready"
    /\ tap.ops < MaxOps
    /\ UNCHANGED tvars
    /\ LET t == [tap EXCEPT !.ops = @ + 1, !.last_op = "sync_one",
                            !.arg = stream_name, !.mark = Len(tap.sync_log)]
       IN  IF ~ HasKey(tap.streams, stream_name)
           THEN tap' = [t EXCEPT !.error = [kind |-> "ValueError",
                                            names |-> << stream_name >>]]
           ELSE tap' = [t EXCEPT !.sync_log = Append(@, Lookup(tap.streams, stream_name)),
                                 !.error = IF ok THEN NoTapError
                                           ELSE TapError("SyncError")]

\* TapBase.sync_one; ok is whether the sync of the stream returns
sync_one(stream_name, ok) ==
    /\ tap.phase = "ready"
    /\ tap.ops < MaxOps
    /\ UNCHANGED tvars
    /\ LET t == [tap EXCEPT !.ops = @ + 1, !.last_op = "sync_one",
                            !.arg = stream_name, !.mark = Len(tap.sync_log)]
       IN  IF ~ HasKey(tap.streams, stream_name)
           THEN tap' = [t EXCEPT !.error = [kind |-> "ValueError",
                                            names |-> SortedKeys(tap.streams)]]
           ELSE tap' = [t EXCEPT !.sync_log = Append(@, Lookup(tap.streams, stream_name)),
                                 !.error = IF ok THEN NoTapError
                                           ELSE TapError("SyncError")]

\* TapBase.sync_all: entry of the loop
sync_all ==
    /\ tap.phase = "ready"
    /\ tap.ops < MaxOps
    /\ UNCHANGED tvars
    /\ tap' = SyncAllEntered(tap)

\* variant of sync_all_step: the error of a stream is caught and the loop goes
\* on with the next stream
sync_all_step_Continue(ok) ==
    /\ tap.phase = "syncing"
    /\ UNCHANGED tvars
    /\ LET last == tap.idx = Len(tap.streams)
       IN  tap' = [tap EXCEPT !.sync_log = Append(@, tap.streams[tap.idx].value),
                              !.error = IF ok THEN tap.error ELSE TapError("SyncError"),
                              !.phase = IF last THEN "ready" ELSE "syncing",
                              !.idx = IF last THEN 0 ELSE @ + 1]

\* TapBase.sync_all: one iteration, stream.sync() of the next stream; an
\* error leaves the loop and sync_all
sync_all_step(ok) ==
    /\ tap.phase = "syncing"
    /\ UNCHANGED tvars
    /\ LET last == ~ ok \/ tap.idx = Len(tap.streams)
       IN  tap' = [tap EXCEPT !.sync_log = Append(@, tap.streams[tap.idx].value),
                              !.error = IF ok THEN NoTapError ELSE TapError("SyncError"),
                              !.phase = IF last THEN "ready" ELSE "syncing",
                              !.idx = IF last THEN 0 ELSE @ + 1]

\* variant of run_discovery: the discovery hook is run again and the registry
\* rebuilt from its result
run_discovery_Rediscover ==
    /\ tap.phase = "ready"
    /\ tap.ops < MaxOps
    /\ UNCHANGED tvars
    /\ LET d == IF tap.discovery.implemented
                THEN Register(<< >>, discover_streams(tap.discovery))
                ELSE tap.streams
       IN  tap' = [Printed([tap EXCEPT !.streams = d])
                     EXCEPT !.discover_calls = @ + 1]

\* TapBase.run_discovery: print the catalog of the registry
run_discovery ==
    /\ tap.phase = "ready"
    /\ tap.ops < MaxOps
    /\ UNCHANGED tvars
    /\ tap' = Printed(tap)

\* the command line of build_cli: the options --version, --discover, --config
\* and --catalog are declared; user_state is the checkpoint the user wants to
\* supply.  No option carries it: the command line that names it is refused
\* by the option parser, and the state parameter of cli keeps its default None.
cli(version, discover, user_state) ==
    /\ tap.phase = "new"
    /\ tap.catalog.kind \in {"none", "file"}
    /\ UNCHANGED tvars
    /\ LET ran == [ran |-> TRUE, version |-> version, discover |-> discover,
                   user_state |-> user_state, exit |-> "ok"]
       IN  IF user_state # "none"
           THEN tap' = [tap EXCEPT !.phase = "failed",
                                   !.error = TapError("UsageError"),
                                   !.cli = [ran EXCEPT !.exit = "usage"]]
           ELSE IF version
           THEN tap' = [tap EXCEPT !.phase = "exited",
                                   !.stdout = Append(@, << "version" >>),
                                   !.cli = ran]
           ELSE LET t == [Constructed("none") EXCEPT !.cli = ran]
                IN  IF t.phase = "failed" THEN tap' = t
                    ELSE IF discover THEN tap' = Printed(t)
                    ELSE tap' = SyncAllEntered(t)

\* json.loads of a printed catalog, handed to a constructor as a dict
loads(tokens) ==
    [kind |-> "dict", has_streams |-> tokens[2] = "streams",
     streams |-> [i \in 1 .. ((Len(tokens) - 5) \div 4) |->
                    [tap_stream_id |-> tokens[3 + 4 * (i - 1) + 3]]]]

\* a new plugin of the same class is constructed from the catalog that
\* run_discovery printed last
reload ==
    /\ tap.phase = "ready"
    /\ tap.last_op = "run_discovery"
    /\ ~ tap.reloaded.done
    /\ UNCHANGED tvars
    /\ LET c == Construct(loads(tap.stdout[Len(tap.stdout)]), tap.discovery,
                          tap.default_stream_class)
       IN  tap' = [tap EXCEPT !.reloaded =
                      [done |-> TRUE, phase |-> c.phase, error |-> c.error,
                       streams |-> c.streams,
                       discover_calls |-> c.discover_calls,
                       load_calls |-> c.load_calls]]

TapNext ==
    \/ \E st \in StateInputs : TapBase_init(st)
    \/ \E n \in StreamNames, ok \in BOOLEAN : sync_one(n, ok)
    \/ sync_all
    \/ \E ok \in BOOLEAN : sync_all_step(ok)
    \/ run_discovery
    \/ \E v \in BOOLEAN, d \in BOOLEAN, us \in StateInputs : cli(v, d, us)
    \/ reload

TapSpec == TapInit /\ [][TapNext]_vars

(* ------------------------ stream registry: properties ----------------- *)

\* the names of a list of catalog entries
EntryNames(es) == [i \in 1 .. Len(es) |-> es[i].tap_stream_id]
Range(q) == {q[i] : i \in 1 .. Len(q)}
Distinct(q) == \A i, j \in 1 .. Len(q) : i # j => q[i] # q[j]
\* construction took the catalog path and succeeded
CatalogLoaded == tap.phase \in {"ready", "syncing"} /\ Truthy(tap.catalog)
\* construction took the discovery path and succeeded
Discovered == tap.phase \in {"ready", "syncing"} /\ ~ Truthy(tap.catalog)

\* C9: after construction from a catalog the registry holds exactly one stream
\* per distinct name of the catalog, and the stream registered under a name is
\* the one built from the last catalog entry with that name.
C9_LastEntryWins ==
    CatalogLoaded =>
       LET ids == EntryNames(tap.catalog.streams)
       IN  /\ Len(tap.streams) = Cardinality(Range(ids))
           /\ Range(Keys(tap.streams)) = Range(ids)
           /\ \A p \in Range(tap.streams) :
                /\ p.value.name = p.key
                /\ ids[p.value.origin] = p.key
                /\ \A i \in 1 .. Len(ids) : ids[i] = p.key => i <= p.value.origin

C9_Witness ==
    /\ CatalogLoaded
    /\ EntryNames(tap.catalog.streams) = << "users", "orders", "users" >>
    /\ Len(tap.streams) = 2
    /\ Lookup(tap.streams, "users").origin = 3

\* C10 as stated: for a catalog with pairwise distinct names the registry's
\* names are the catalog's names in catalog order, and with no catalog the
\* registry's streams are the sequence the discovery hook returned.
C10_Original ==
    /\ (CatalogLoaded /\ Distinct(EntryNames(tap.catalog.streams)))
          => Keys(tap.streams) = EntryNames(tap.catalog.streams)
    /\ Discovered
          => /\ Keys(tap.streams) = tap.discovery.names
             /\ Values(tap.streams) = discover_streams(tap.discovery)

\* C10 amended: the same, for a discovery result with pairwise distinct names.
C10_RegistryOrder ==
    /\ (CatalogLoaded /\ Distinct(EntryNames(tap.catalog.streams)))
          => Keys(tap.streams) = EntryNames(tap.catalog.streams)
    /\ (Discovered /\ Distinct(tap.discovery.names))
          => /\ Keys(tap.streams) = tap.discovery.names
             /\ Values(tap.streams) = discover_streams(tap.discovery)

C10_Witness ==
    /\ Discovered
    /\ tap.discovery.names = << "users", "orders" >>
    /\ Keys(tap.streams) = << "users", "orders" >>

C10_WitnessCatalog ==
    /\ CatalogLoaded
    /\ EntryNames(tap.catalog.streams) = << "orders", "users" >>
    /\ Keys(tap.streams) = << "orders", "users" >>

\* the constructor of the tap has run
Attempted == tap.state_arg # "unset"
\* the constructor of the tap has run and returned
ConstructedOk == Attempted /\ tap.phase \in {"ready", "syncing"}

\* what the two paths leave when a catalog counts as supplied under `given`
PathsExclusive(given) ==
    Attempted =>
       /\ tap.load_calls + tap.discover_calls = 1
       /\ given
            => /\ tap.load_calls = 1 /\ tap.discover_calls = 0
               /\ ConstructedOk
                    => /\ tap.loaded = Len(tap.catalog.streams)
                       /\ EntryNames(tap.catalog.streams)
                            = [i \in 1 .. Len(tap.list_of_streams) |->
                                 tap.list_of_streams[i].name]
       /\ ~ given
            => /\ tap.discover_calls = 1 /\ tap.load_calls = 0
               /\ tap.loaded = 0

\* C11 as stated: every construction takes exactly one of the two paths; with a
\* catalog supplied, as a mapping or as a file reference, the streams come from
\* the catalog and the discovery hook is not called; with no catalog the
\* discovery hook is called and no catalog entry is loaded.
C11_Original == PathsExclusive(tap.catalog.kind # "none")

\* C11 amended: the same, where a catalog counts as supplied when it is a
\* non-empty mapping or a file reference; the empty mapping counts as no
\* catalog.
C11_PathsExclusive ==
    PathsExclusive(tap.catalog.kind = "file"
                     \/ (tap.catalog.kind = "dict" /\ tap.catalog.has_streams))

C11_Witness ==
    /\ ConstructedOk
    /\ tap.catalog.kind = "file"
    /\ tap.discovery.implemented
    /\ tap.discovery.names # << >>
    /\ Len(tap.catalog.streams) = 2
    /\ tap.load_calls = 1
    /\ tap.discover_calls = 0

C11_WitnessDiscovery ==
    /\ ConstructedOk
    /\ tap.catalog.kind = "none"
    /\ tap.discover_calls = 1
    /\ tap.loaded = 0

\* the streams synced since the latest call began
SyncedSince == SubSeq(tap.sync_log, tap.mark + 1, Len(tap.sync_log))

\* C12: sync_all syncs the streams one after the other in registry order; when
\* no sync fails every registered stream has been synced exactly once; when the
\* sync of stream k fails, the streams before k have been synced once each, no
\* stream after k is synced, and sync_all ends with that failure.
C12_SyncAllSequential ==
    tap.last_op = "sync_all" =>
       LET all == Values(tap.streams)
       IN  /\ tap.phase = "syncing"
                => /\ tap.error = NoTapError
                   /\ tap.idx \in 1 .. Len(all)
                   /\ SyncedSince = SubSeq(all, 1, tap.idx - 1)
           /\ (tap.phase = "ready" /\ tap.error = NoTapError)
                => SyncedSince = all
           /\ (tap.phase = "ready" /\ tap.error # NoTapError)
                => /\ tap.error = TapError("SyncError")
                   /\ Len(SyncedSince) \in 1 .. Len(all)
                   /\ SyncedSince = SubSeq(all, 1, Len(SyncedSince))

C12_Witness ==
    /\ tap.last_op = "sync_all"
    /\ tap.phase = "ready"
    /\ tap.error = TapError("SyncError")
    /\ Len(tap.streams) = 2
    /\ Len(SyncedSince) = 1

C12_WitnessAll ==
    /\ tap.last_op = "sync_all"
    /\ tap.phase = "ready"
    /\ tap.error = NoTapError
    /\ Len(tap.streams) = 2
    /\ Len(SyncedSince) = 2

\* C13: sync_one of a name that is not registered fails with a lookup error
\* whose message lists all and only the registered names, and syncs no stream;
\* sync_one of a registered name syncs that stream once and no other.
C13_SyncOneLookup ==
    tap.last_op = "sync_one" =>
       IF ~ HasKey(tap.streams, tap.arg)
       THEN /\ tap.error.kind = "ValueError"
            /\ Range(tap.error.names) = Range(Keys(tap.streams))
            /\ Len(tap.error.names) = Len(tap.streams)
            /\ SyncedSince = << >>
       ELSE /\ SyncedSince = << Lookup(tap.streams, tap.arg) >>
            /\ SyncedSince[1].name = tap.arg
            /\ tap.error.kind \in {"none", "SyncError"}

C13_Witness ==
    /\ tap.last_op = "sync_one"
    /\ tap.arg = "orders"
    /\ Keys(tap.streams) = << "users" >>
    /\ tap.error = [kind |-> "ValueError", names |-> << "users" >>]

C13_WitnessRegistered ==
    /\ tap.last_op = "sync_one"
    /\ tap.arg = "orders"
    /\ Keys(tap.streams) = << "users", "orders" >>
    /\ SyncedSince = << Lookup(tap.streams, "orders") >>

\* C14: a plugin constructed from the catalog that run_discovery printed for a
\* registry built by discovery has the same stream names in the same order,
\* for a tap class that can rehydrate its streams (it has a stream class).
C14_CatalogRoundTrip ==
    (tap.reloaded.done /\ Discovered /\ tap.default_stream_class)
       => /\ tap.reloaded.phase = "ready"
          /\ tap.reloaded.load_calls = 1
          /\ Keys(tap.reloaded.streams) = Keys(tap.streams)
          /\ \A i \in 1 .. Len(tap.reloaded.streams) :
                tap.reloaded.streams[i].value.name = tap.streams[i].value.name

C14_Witness ==
    /\ tap.reloaded.done
    /\ Discovered
    /\ tap.default_stream_class
    /\ tap.discovery.names = << "users", "orders", "users" >>
    /\ Keys(tap.reloaded.streams) = << "users", "orders" >>

\* C15: once construction has finished, no sync_one, sync_all or run_discovery
\* call changes the registry (names, order, bound streams), and neither the
\* catalog nor the discovery hook is consulted again.
C15_RegistryImmutable ==
    [][tap.phase \in {"ready", "syncing"}
          => /\ tap'.streams = tap.streams
             /\ tap'.list_of_streams = tap.list_of_streams
             /\ tap'.catalog = tap.catalog
             /\ tap'.discover_calls = tap.discover_calls
             /\ tap'.load_calls = tap.load_calls
             /\ tap'.loaded = tap.loaded]_vars

C15_Witness ==
    /\ tap.ops = 2
    /\ tap.phase = "ready"
    /\ tap.last_op = "sync_one"
    /\ tap.error.kind = "ValueError"
    /\ Len(tap.sync_log) = 1
    /\ Keys(tap.streams) = << "users" >>
    /\ tap.streams = Register(<< >>, tap.list_of_streams)
    /\ tap.discover_calls + tap.load_calls = 1

(* ------------- attribute variant: values over all records ------------- *)

\* a captured record: some of the attributes, each null or a value
Records == UNION {[D -> {Null} \cup (1 .. MaxVal)] : D \in SUBSET Attrs}

\* an attribute test instance that a run call has just bound, for any records
\* the runner may have captured for the stream
AttrInit ==
    /\ variant = "attribute"
    /\ name = "t1"
    /\ plugin_type = "attribute"
    /\ config \in Configs
    /\ resource = "res"
    /\ runner = "r1"
    /\ plugin = NoPlugin
    /\ stream \in StreamNames
    /\ stream_records \in UNION {[1 .. k -> Records] : k \in 0 .. MaxRecords}
    /\ attribute_name \in Attrs
    /\ cache = NoCache
    /\ created = [r \in Runners |-> 0]
    /\ input_filepath = [r \in Runners |-> NoPath]
    /\ pc = "setup"
    /\ pending = NoError
    /\ runs = 1
    /\ calls = << >>
    /\ outcome = NoOutcomes
    /\ result = Running
    /\ last_read = NoCache
    /\ warnings = 0
    /\ test_id = NoId
    /\ tap = NoTap

AttrNext == non_null_attribute_values

AttrSpec == AttrInit /\ [][AttrNext]_vars

\* the values of attr in the records where it is present and not null
RECURSIVE PresentValues(_, _)
PresentValues(recs, attr) ==
    IF recs = << >> THEN << >>
    ELSE (IF attr \in DOMAIN Head(recs) /\ Head(recs)[attr] # Null
          THEN << Head(recs)[attr] >> ELSE << >>)
         \o PresentValues(Tail(recs), attr)

\* C16: non_null_attribute_values is the sequence of the values of the
\* attribute in the records where it is present and not null, in record order;
\* computing it warns exactly when that sequence is empty and neither the
\* global ignore option is set nor the stream is listed in the per-stream
\* option; an empty result is returned like any other.
C16_NonNullValues ==
    /\ warnings \in {0, 1}
    /\ cache.set
          => /\ cache.val = PresentValues(stream_records, attribute_name)
             /\ last_read = cache
             /\ warnings = 1
                  <=> /\ cache.val = << >>
                      /\ ~ config.ignore_no_records
                      /\ stream \notin config.ignore_no_records_for_streams
    /\ ~ cache.set => (warnings = 0 /\ ENABLED non_null_attribute_values)

C16_Witness ==
    /\ cache.set
    /\ stream_records = << ("a" :> Null) >>
    /\ attribute_name = "a"
    /\ last_read.val = << >>
    /\ warnings = 1

C16_WitnessValues ==
    /\ cache.set
    /\ stream_records = << ("a" :> 1), ("a" :> Null) @@ ("b" :> 2) >>
    /\ attribute_name = "a"
    /\ last_read.val = << 1 >>
    /\ warnings = 0

(* --------------------------- test ids: runs --------------------------- *)

\* test, stream and attribute names for the ids: plain ones, and ones that
\* hold or touch the delimiter, or equal a variant prefix
IdNames == {"t1", "a__t1", "_t1"}
IdStreams == {"users", "user_events", "users_", "tap", "target"}

\* an instance of any variant after a first run that returned
IdInit ==
    /\ variant \in Variants
    /\ name \in IdNames
    /\ plugin_type = PluginTypeOf(variant)
    /\ config = [bound |-> TRUE, ignore_no_records |-> FALSE,
                 ignore_no_records_for_streams |-> {}]
    /\ resource = "res"
    /\ runner = "r1"
    /\ stream \in IF variant \in {"stream", "attribute"} THEN IdStreams
                  ELSE {"none"}
    /\ stream_records = IF variant \in {"stream", "attribute"}
                        THEN records("r1", stream) ELSE << >>
    /\ attribute_name \in IF variant = "attribute" THEN Attrs ELSE {"none"}
    /\ cache = NoCache
    /\ IF variant \in {"tap", "target", "target_file"}
       THEN /\ plugin = [runner |-> "r1", n |-> 1,
                      input |-> IF variant = "target_file"
                                THEN singer_filepath(name) ELSE NoPath]
            /\ created = [r \in Runners |-> IF r = "r1" THEN 1 ELSE 0]
            /\ calls = << IF variant = "tap" THEN "new_tap" ELSE "new_target",
                          "setup", "test", "validate", "teardown" >>
       ELSE /\ plugin = NoPlugin
            /\ created = [r \in Runners |-> 0]
            /\ calls = << "setup", "test", "validate", "teardown" >>
    /\ input_filepath = [r \in Runners |->
                           IF r = "r1" /\ variant = "target_file"
                           THEN singer_filepath(name) ELSE NoPath]
    /\ pc = "idle"
    /\ pending = NoError
    /\ runs = 1
    /\ outcome = [p \in Phases |-> "ok"]
    /\ result = Returned
    /\ last_read = NoCache
    /\ warnings = 0
    /\ test_id = NoId
    /\ tap = NoTap

\* the id is read, and the instance is run again with the bindings it has
IdNext ==
    \/ id
    \/ TapTestTemplate_run(config, resource, runner)
    \/ StreamTestTemplate_run(config, resource, runner, stream)
    \/ AttributeTestTemplate_run(config, resource, runner, stream, attribute_name)
    \/ TargetTestTemplate_run(config, resource, runner)
    \/ \E f \in BOOLEAN : TargetFileTestTemplate_run(config, resource, runner, f)
    \/ \E o \in Outcomes : setup(o)
    \/ \E o \in Outcomes : test(o)
    \/ \E o \in Outcomes : validate(o)
    \/ \E o \in Outcomes : teardown(o)

IdSpec == IdInit /\ [][IdNext]_vars

\* what identifies an instance: its variant among the four (a target-file test
\* is a target test) and the bindings its id is built from
Identity(v, n, s, a) ==
    [variant |-> IF v = "target_file" THEN "target" ELSE v,
     name |-> n, stream |-> s, attr |-> a]

\* all instances over the names above
IdInstances ==
    {<< v, n, "none", "none" >> : v \in {"tap", "target", "target_file"},
                                 n \in IdNames}
    \cup {<< "stream", n, s, "none" >> : n \in IdNames, s \in IdStreams}
    \cup {<< "attribute", n, s, a >> : n \in IdNames, s \in IdStreams, a \in Attrs}

\* the id formats of the four variants
FormatId(v, n, s, a) ==
    IF v = "tap" THEN "tap__" \o n
    ELSE IF v = "stream" THEN s \o "__" \o n
    ELSE IF v = "attribute" THEN s \o "__" \o a \o "__" \o n
    ELSE "target__" \o n

\* of the names above, those that are not empty, do not contain "__" and
\* neither begin nor end with "_"
Delimited(n) ==
    n \in {"none", "t1", "users", "user_events", "tap", "target", "a", "b"}
\* the names of an instance are such names and its stream is not called like a
\* variant prefix
WellFormed(v, n, s, a) ==
    /\ Delimited(n) /\ Delimited(s) /\ Delimited(a)
    /\ s \notin {"tap", "target"}

\* no instance of another identity among `others` has the id that was read
NoClash(others) ==
    \A o \in others :
       Identity(o[1], o[2], o[3], o[4])
            # Identity(variant, name, stream, attribute_name)
          => IdOf(o[1], o[2], o[3], o[4]) # test_id.val

\* C17 as stated: the id read from an instance has the format of its variant,
\* is the same after the instance is run again with the same bindings, and is
\* the id of no instance that differs in variant or in an identity binding.
C17_Original ==
    test_id.set
       => /\ test_id.val = FormatId(variant, name, stream, attribute_name)
          /\ NoClash(IdInstances)

\* C17 amended: the same, among the instances whose test, stream and attribute
\* names do not contain "__", neither begin nor end with "_", and whose stream
\* is not named tap or target.
C17_IdsDistinct ==
    test_id.set
       => /\ test_id.val = FormatId(variant, name, stream, attribute_name)
          /\ WellFormed(variant, name, stream, attribute_name)
               => NoClash({o \in IdInstances : WellFormed(o[1], o[2], o[3], o[4])})

C17_Witness ==
    /\ test_id.set
    /\ runs = 2
    /\ result = Returned
    /\ variant = "attribute"
    /\ stream = "user_events"
    /\ test_id.val = "user_events__a__t1"

(* ------------------------- command line: state ------------------------- *)

\* C18: in every command-line run that is not --version, the state argument
\* the constructor receives is the checkpoint state the user supplied, and the
\* state of the tap is the one loaded from it.
C18_Original ==
    (tap.cli.ran /\ ~ tap.cli.version)
       => /\ tap.state_arg = tap.cli.user_state
          /\ tap.state = state_dict(tap.cli.user_state)

(* ------------------------- target-file fixture ------------------------- *)

\* the latest run call of a target-file test stopped at the fixture assertion
FixtureMissing == result = Raise([kind |-> "AssertionError", phase |-> "fixture"])

\* C19: in the target-file variant, a run whose fixture file does not exist
\* fails with the assertion error with no target acquired, no phase called and
\* the input source of every runner, the targets created and the target of the
\* test as they were; a run whose fixture exists acquired its target from a
\* runner whose input source was already the fixture path of the test's name,
\* and that is still the runner's input source in every later phase.
C19_FixturePrecondition ==
    /\ [](variant = "target_file"
            => /\ FixtureMissing => (calls = << >> /\ pc = "idle")
               /\ calls # << >>
                    => /\ plugin.input = singer_filepath(name)
                       /\ input_filepath[plugin.runner] = singer_filepath(name)
                       /\ calls[1] = "new_target")
    /\ [][(variant = "target_file" /\ runs' = runs + 1 /\ FixtureMissing')
            => /\ input_filepath' = input_filepath
               /\ created' = created
               /\ plugin' = plugin]_vars

C19_Witness ==
    /\ variant = "target_file"
    /\ runs = 2
    /\ FixtureMissing
    /\ created["r1"] = 1
    /\ plugin.input = singer_filepath("t1")
    /\ input_filepath["r1"] = singer_filepath("t1")

C19_WitnessFixture ==
    /\ variant = "target_file"
    /\ pc = "test"
    /\ calls = << "new_target", "setup" >>
    /\ plugin.input = singer_filepath(name)

(* --------------------------- repeated names --------------------------- *)

\* the names the streams of a construction come from, in the order given
SourceNames ==
    IF Truthy(tap.catalog) THEN EntryNames(tap.catalog.streams)
    ELSE tap.discovery.names

\* the names of q in the order of their first occurrence
RECURSIVE FirstOccurrences(_)
FirstOccurrences(q) ==
    IF q = << >> THEN << >>
    ELSE LET front == FirstOccurrences(SubSeq(q, 1, Len(q) - 1))
         IN  IF q[Len(q)] \in Range(front) THEN front
             ELSE Append(front, q[Len(q)])

\* the position of the last occurrence of n in q
LastIndex(q, n) ==
    CHOOSE i \in 1 .. Len(q) :
       q[i] = n /\ \A j \in 1 .. Len(q) : q[j] = n => j <= i

\* the registry a sequence of names leaves: one pair per distinct name, at the
\* position of its first occurrence, with the instance of its last occurrence
Survivors(q) ==
    LET first == FirstOccurrences(q)
    IN  [i \in 1 .. Len(first) |-> Stream(first[i], LastIndex(q, first[i]))]

\* C20: after a construction from a catalog or a discovery result, also one
\* that repeats names, the registry lists each distinct name at the position
\* of its first occurrence with the instance built from its last occurrence,
\* one instance has been built for every entry, and a sync_all that ends
\* without failure has synced exactly these surviving instances, once each, in
\* that order.
C20_RepeatedNames ==
    tap.phase \in {"ready", "syncing"} =>
       /\ Keys(tap.streams) = FirstOccurrences(SourceNames)
       /\ Values(tap.streams) = Survivors(SourceNames)
       /\ tap.list_of_streams
            = [i \in 1 .. Len(SourceNames) |-> Stream(SourceNames[i], i)]
       /\ (tap.last_op = "sync_all" /\ tap.phase = "ready" /\ tap.error = NoTapError)
            => SyncedSince = Survivors(SourceNames)

C20_Witness ==
    /\ CatalogLoaded
    /\ EntryNames(tap.catalog.streams) = << "users", "orders", "users" >>
    /\ Len(tap.list_of_streams) = 3
    /\ tap.last_op = "sync_all"
    /\ tap.phase = "ready"
    /\ SyncedSince = << Stream("users", 3), Stream("orders", 2) >>

C20_WitnessDiscovery ==
    /\ Discovered
    /\ tap.discovery.names = << "orders", "users", "orders" >>
    /\ Keys(tap.streams) = << "orders", "users" >>
    /\ Lookup(tap.streams, "orders").origin = 3

====
